---- MODULE Spec2Model ----
(***************************************************************************)
(* Model of mc_vmc_renamer.py: conversion of GameCube memory-card layouts  *)
(* (MCGCP <-> GCMCE) on a filesystem.                                      *)
(*                                                                         *)
(* A name is a tuple of one-character strings, a path is a tuple of names  *)
(* (the first name is the root directory), and the filesystem is a         *)
(* function from the existing paths to nodes.  A file node carries its     *)
(* content in `data`; the content of an initial file is its initial path,  *)
(* so every initial file has a content of its own.                         *)
(***************************************************************************)
EXTENDS Integers, Sequences, FiniteSets, TLC

VARIABLES
    args,       \* the parsed command line (argparse.Namespace)
    fs,         \* the filesystem
    fs0,        \* the filesystem when the run started (history)
    pc,         \* position in main(); where the run ended once it has exited
    copy_mode,  \* main: copy_mode
    l2r,        \* main: l2r (letter -> region3)
    r2l,        \* main: r2l (region3 -> letter)
    plan,       \* main: plan, a sequence of PlanItem
    i,          \* execute_plan: index of the next plan item
    error,      \* name of the exception that ended the run, or "none"
    exit_code   \* <<status>> once the process has exited, << >> while running

vars == <<args, fs, fs0, pc, copy_mode, l2r, r2l, plan, i, error, exit_code>>

----------------------------------------------------------------------------
(* Bounds of the model *)

\* at most this many entries in {sd-root}/MemoryCards at the start
MaxSrcEntries == 2
\* at most this many entries in {output-sd-root}/MemoryCards at the start
MaxOutEntries == 1

----------------------------------------------------------------------------
(* Names *)

MEMORYCARDS == <<"M","e","m","o","r","y","C","a","r","d","s">>
GCNAME == <<"G","C">>
BACKUPNAME == MEMORYCARDS \o <<".","b","a","c","k","u","p">>
RAWSUFFIX == <<"-","1",".","r","a","w">>
OTHERNAME == <<"G","A","F","E","0","1","0","0","-","2",".","r","a","w">>

SDROOT == << <<"s","d">> >>
OUTROOT == << <<"o","u","t">> >>
BACKUPDIR == << <<"b","k">> >>
NoPath == <<>>

UpperLetters ==
    {"A","B","C","D","E","F","G","H","I","J","K","L","M",
     "N","O","P","Q","R","S","T","U","V","W","X","Y","Z"}
Digits == {"0","1","2","3","4","5","6","7","8","9"}
LowerSeq ==
    <<"a","b","c","d","e","f","g","h","i","j","k","l","m",
      "n","o","p","q","r","s","t","u","v","w","x","y","z">>
UpperSeq ==
    <<"A","B","C","D","E","F","G","H","I","J","K","L","M",
      "N","O","P","Q","R","S","T","U","V","W","X","Y","Z">>

\* str.upper() on one character
UpperChar(c) ==
    IF \E k \in 1..Len(LowerSeq) : LowerSeq[k] = c
    THEN UpperSeq[CHOOSE k \in 1..Len(LowerSeq) : LowerSeq[k] = c]
    ELSE c

\* str.upper() on a string
UpperStr(s) == [k \in 1..Len(s) |-> UpperChar(s[k])]

----------------------------------------------------------------------------
(* Layout matchers *)

\* RE_MCGCP_DIR = ^(?P<gameid>[A-Z0-9]{4})0100$
MatchMcgcp(name) ==
    /\ Len(name) = 8
    /\ \A k \in 1..4 : name[k] \in UpperLetters \cup Digits
    /\ SubSeq(name, 5, 8) = <<"0","1","0","0">>

\* RE_GCMCE_DIR = ^DL-DOL-(?P<gameid>[A-Z0-9]{4})-(?P<region3>[A-Z]{3})$
MatchGcmce(name) ==
    /\ Len(name) = 15
    /\ SubSeq(name, 1, 7) = <<"D","L","-","D","O","L","-">>
    /\ \A k \in 8..11 : name[k] \in UpperLetters \cup Digits
    /\ name[12] = "-"
    /\ \A k \in 13..15 : name[k] \in UpperLetters

McgcpGameid(name) == SubSeq(name, 1, 4)
GcmceGameid(name) == SubSeq(name, 8, 11)
GcmceRegion3(name) == SubSeq(name, 13, 15)

----------------------------------------------------------------------------
(* Region tables *)

DEFAULT_REGION3_FROM_LETTER ==
    [c \in {"E","J","P","K","D","F","I","S","X","Y","Z"} |->
        CASE c = "E" -> <<"U","S","A">>
          [] c = "J" -> <<"J","P","N">>
          [] c = "P" -> <<"E","U","R">>
          [] c = "K" -> <<"K","O","R">>
          [] c = "D" -> <<"G","E","R">>
          [] c = "F" -> <<"F","R","A">>
          [] c = "I" -> <<"I","T","A">>
          [] c = "S" -> <<"E","S","P">>
          [] c = "X" -> <<"O","T","H">>
          [] c = "Y" -> <<"O","T","H">>
          [] c = "Z" -> <<"O","T","H">>]

Region3Keys ==
    { <<"U","S","A">>, <<"J","P","N">>, <<"E","U","R">>, <<"K","O","R">>,
      <<"G","E","R">>, <<"F","R","A">>, <<"I","T","A">>, <<"E","S","P">>,
      <<"O","T","H">> }

\* the table with one entry mistyped: "EUR": "E"
LETTER_FROM_REGION3_Mistyped ==
    [r \in Region3Keys |->
        CASE r = <<"U","S","A">> -> "E"
          [] r = <<"J","P","N">> -> "J"
          [] r = <<"E","U","R">> -> "E"
          [] r = <<"K","O","R">> -> "K"
          [] r = <<"G","E","R">> -> "D"
          [] r = <<"F","R","A">> -> "F"
          [] r = <<"I","T","A">> -> "I"
          [] r = <<"E","S","P">> -> "S"
          [] r = <<"O","T","H">> -> "X"]

DEFAULT_LETTER_FROM_REGION3 ==
    [r \in Region3Keys |->
        CASE r = <<"U","S","A">> -> "E"
          [] r = <<"J","P","N">> -> "J"
          [] r = <<"E","U","R">> -> "P"
          [] r = <<"K","O","R">> -> "K"
          [] r = <<"G","E","R">> -> "D"
          [] r = <<"F","R","A">> -> "F"
          [] r = <<"I","T","A">> -> "I"
          [] r = <<"E","S","P">> -> "S"
          [] r = <<"O","T","H">> -> "X"]

OTH == <<"O","T","H">>

\* dict.get(key, default)
DictGet(d, key, default) == IF key \in DOMAIN d THEN d[key] ELSE default

\* for k, v in overrides.items(): table[k.upper()] = v.upper()
\* (the keys of one override object are distinct after upper-casing in the
\* override files of this model)
MergeLetters(table, overrides) ==
    LET keys == {UpperChar(k) : k \in DOMAIN overrides}
    IN  [c \in DOMAIN table \cup keys |->
            IF c \in keys
            THEN UpperStr(overrides[CHOOSE k \in DOMAIN overrides : UpperChar(k) = c])
            ELSE table[c]]

MergeRegions(table, overrides) ==
    LET keys == {UpperStr(k) : k \in DOMAIN overrides}
    IN  [r \in DOMAIN table \cup keys |->
            IF r \in keys
            THEN UpperChar(overrides[CHOOSE k \in DOMAIN overrides : UpperStr(k) = r])
            ELSE table[r]]

\* load_region_map(path): json is the parsed override file, or absent
LoadL2R(json) ==
    IF ~json.given THEN DEFAULT_REGION3_FROM_LETTER
    ELSE MergeLetters(DEFAULT_REGION3_FROM_LETTER, json.letter_to_region3)

LoadR2L(json) ==
    IF ~json.given THEN DEFAULT_LETTER_FROM_REGION3
    ELSE MergeRegions(DEFAULT_LETTER_FROM_REGION3, json.region3_to_letter)

----------------------------------------------------------------------------
(* Filesystem *)

DirNode == [kind |-> "dir", data |-> <<>>]
FileNode(content) == [kind |-> "file", data |-> content]

IsPrefix(p, q) == Len(p) <= Len(q) /\ SubSeq(q, 1, Len(p)) = p
Parent(p) == SubSeq(p, 1, Len(p) - 1)
Name(p) == p[Len(p)]

\* Path.exists(), Path.is_dir()
Exists(f, p) == p \in DOMAIN f
IsDir(f, p) == p \in DOMAIN f /\ f[p].kind = "dir"

\* Path.iterdir(): the entries of directory p
Entries(f, p) == {q \in DOMAIN f : Len(q) = Len(p) + 1 /\ IsPrefix(p, q)}

\* the paths at or below p
Subtree(f, p) == {q \in DOMAIN f : IsPrefix(p, q)}

Restrict(f, S) == [q \in S |-> f[q]]

\* Path.unlink(), Path.rmdir() of an empty directory
Remove(f, p) == Restrict(f, DOMAIN f \ {p})

\* shutil.rmtree(p)
Rmtree(f, p) == Restrict(f, DOMAIN f \ Subtree(f, p))

\* the proper and improper prefixes of p, the root included
Prefixes(p) == {SubSeq(p, 1, k) : k \in 1..Len(p)}

\* Path.mkdir(parents=True, exist_ok=True): fails when p or one of its
\* ancestors exists and is not a directory; creates nothing in that case
MkdirFails(f, p) == \E q \in Prefixes(p) : q \in DOMAIN f /\ f[q].kind # "dir"
Mkdir(f, p) ==
    [q \in DOMAIN f \cup Prefixes(p) |-> IF q \in DOMAIN f THEN f[q] ELSE DirNode]

\* Path.replace(dst) / os.rename: src, with all below it, becomes dst
Replace(f, src, dst) ==
    LET moved == Subtree(f, src)
        target(q) == dst \o SubSeq(q, Len(src) + 1, Len(q))
        kept == DOMAIN f \ moved
        new == {target(q) : q \in moved}
    IN  [q \in kept \cup new |->
            IF q \in new
            THEN f[CHOOSE s \in moved : target(s) = q]
            ELSE f[q]]

\* shutil.copy2(src, dst) of a regular file onto a path that is no directory
Copy2(f, src, dst) ==
    [q \in DOMAIN f \cup {dst} |-> IF q = dst THEN f[src] ELSE f[q]]

\* shutil.copytree(src, dst) of a directory onto a path that does not exist
Copytree(f, src, dst) ==
    LET copied == Subtree(f, src)
        target(q) == dst \o SubSeq(q, Len(src) + 1, Len(q))
        new == {target(q) : q \in copied}
    IN  [q \in DOMAIN f \cup new |->
            IF q \in new
            THEN f[CHOOSE s \in copied : target(s) = q]
            ELSE f[q]]

----------------------------------------------------------------------------
(* Command line *)

\* out_root = Path(args.output_sd_root).resolve() if args.output_sd_root else sd_root
OutRoot(a) == IF a.output_sd_root # NoPath THEN a.output_sd_root ELSE a.sd_root

\* copy mode whenever --output-sd-root is passed, equal to the source or not
CopyMode_WheneverGiven(a) == a.output_sd_root # NoPath

\* copy_mode = out_root != sd_root
CopyMode(a) == OutRoot(a) # a.sd_root

----------------------------------------------------------------------------
(* Scanning and planning *)

RawFile(dir) == dir \o <<Name(dir) \o RAWSUFFIX>>

\* Path.iterdir() raises when the path exists and is no directory
IterdirRaises(f, d) == Exists(f, d) /\ ~IsDir(f, d)

\* scan_mcgcp without the check that the save file exists
ScanMcgcp_WithoutRawCheck(f, memorycards_dir) ==
    IF ~Exists(f, memorycards_dir) THEN {}
    ELSE { [dir |-> e, file |-> RawFile(e), gameid |-> McgcpGameid(Name(e))] :
            e \in { q \in Entries(f, memorycards_dir) :
                        IsDir(f, q) /\ MatchMcgcp(Name(q)) } }

\* scan_mcgcp: the entries it returns, as (dir, file, gameid)
ScanMcgcp(f, memorycards_dir) ==
    IF ~Exists(f, memorycards_dir) THEN {}
    ELSE { [dir |-> e, file |-> RawFile(e), gameid |-> McgcpGameid(Name(e))] :
            e \in { q \in Entries(f, memorycards_dir) :
                        /\ IsDir(f, q)
                        /\ MatchMcgcp(Name(q))
                        /\ Exists(f, RawFile(q)) } }

\* scan_gcmce: the entries it returns, as (dir, file, gameid, region3)
ScanGcmce(f, gc_dir) ==
    IF ~Exists(f, gc_dir) THEN {}
    ELSE { [dir |-> e, file |-> RawFile(e), gameid |-> GcmceGameid(Name(e)),
            region3 |-> GcmceRegion3(Name(e))] :
            e \in { q \in Entries(f, gc_dir) :
                        /\ IsDir(f, q)
                        /\ MatchGcmce(Name(q))
                        /\ Exists(f, RawFile(q)) } }

\* iterdir() yields the entries in an order the operating system chooses
Orders(S) ==
    { o \in [1..Cardinality(S) -> S] :
        \A a, b \in 1..Cardinality(S) : a # b => o[a] # o[b] }

Action(cm) == IF cm THEN "copy" ELSE "move"

\* plan_mcgcp_to_gcmce, from the list scan_mcgcp returned
PlanMcgcpToGcmce(results, out_root, map, cm) ==
    LET dst_root == out_root \o <<MEMORYCARDS, GCNAME>>
        item(r) ==
            LET region_letter == r.gameid[Len(r.gameid)]
                region3 == DictGet(map, UpperChar(region_letter), OTH)
                dst_dir_name == <<"D","L","-","D","O","L","-">> \o r.gameid
                                    \o <<"-">> \o region3
                dst_dir == dst_root \o <<dst_dir_name>>
            IN  [src_dir |-> r.dir, src_file |-> r.file, dst_dir |-> dst_dir,
                 dst_file |-> dst_dir \o <<dst_dir_name \o RAWSUFFIX>>,
                 action |-> Action(cm)]
    IN  [k \in 1..Len(results) |-> item(results[k])]

\* plan_gcmce_to_mcgcp, from the list scan_gcmce returned
PlanGcmceToMcgcp(results, out_root, map, cm) ==
    LET dst_root == out_root \o <<MEMORYCARDS>>
        item(r) ==
            LET mcgcp_dirname == r.gameid \o <<"0","1","0","0">>
                dst_dir == dst_root \o <<mcgcp_dirname>>
            IN  [src_dir |-> r.dir, src_file |-> r.file, dst_dir |-> dst_dir,
                 dst_file |-> dst_dir \o <<mcgcp_dirname \o RAWSUFFIX>>,
                 action |-> Action(cm)]
    IN  [k \in 1..Len(results) |-> item(results[k])]

----------------------------------------------------------------------------
(* Executing; an operation returns the filesystem it leaves and the name of
   the exception it raised, "none" when it returned *)

Ok(f) == [fs |-> f, error |-> "none"]
Raise(f, e) == [fs |-> f, error |-> e]

\* if dst.exists(): remove it when overwrite is set (lines 181-186, 193-198)
RemoveDst(f, dst) == IF IsDir(f, dst) THEN Rmtree(f, dst) ELSE Remove(f, dst)

\* safe_copy
SafeCopy(f, src, dst, overwrite) ==
    IF MkdirFails(f, Parent(dst)) THEN Raise(f, "NotADirectoryError")
    ELSE LET f1 == Mkdir(f, Parent(dst))
         IN  IF Exists(f1, dst) /\ ~overwrite THEN Raise(f1, "FileExistsError")
             ELSE LET f2 == IF Exists(f1, dst) THEN RemoveDst(f1, dst) ELSE f1
                  IN  IF ~Exists(f2, src) THEN Raise(f2, "FileNotFoundError")
                      ELSE IF IsDir(f2, src) THEN Raise(f2, "IsADirectoryError")
                      ELSE Ok(Copy2(f2, src, dst))

\* safe_move that overwrites an existing destination without looking at the
\* overwrite flag
SafeMove_AlwaysOverwrites(f, src, dst, overwrite) ==
    IF MkdirFails(f, Parent(dst)) THEN Raise(f, "NotADirectoryError")
    ELSE LET f1 == Mkdir(f, Parent(dst))
             f2 == IF Exists(f1, dst) THEN RemoveDst(f1, dst) ELSE f1
         IN  IF ~Exists(f2, src) THEN Raise(f2, "FileNotFoundError")
             ELSE Ok(Replace(f2, src, dst))

\* safe_move
SafeMove(f, src, dst, overwrite) ==
    IF MkdirFails(f, Parent(dst)) THEN Raise(f, "NotADirectoryError")
    ELSE LET f1 == Mkdir(f, Parent(dst))
         IN  IF Exists(f1, dst) /\ ~overwrite THEN Raise(f1, "FileExistsError")
             ELSE LET f2 == IF Exists(f1, dst) THEN RemoveDst(f1, dst) ELSE f1
                  IN  IF ~Exists(f2, src) THEN Raise(f2, "FileNotFoundError")
                      ELSE Ok(Replace(f2, src, dst))

\* the source directory is never removed
RemoveEmptyDir_Never(f, dir) == f

\* remove empty source dir (lines 210-217); rmdir of an empty directory
\* succeeds in this model
RemoveEmptyDir(f, dir) ==
    IF IsDir(f, dir) /\ Entries(f, dir) = {} THEN Remove(f, dir) ELSE f

\* one iteration of the loop of execute_plan
ExecuteItem(f, p, overwrite, dry_run) ==
    IF dry_run THEN Ok(f)
    ELSE IF p.action = "move"
    THEN LET r == SafeMove(f, p.src_file, p.dst_file, overwrite)
         IN  IF r.error # "none" THEN r ELSE Ok(RemoveEmptyDir(r.fs, p.src_dir))
    ELSE SafeCopy(f, p.src_file, p.dst_file, overwrite)

\* do_backup that takes an existing backup for done
DoBackup_KeepsExisting(f, sd_root, backup_dir, overwrite, dry_run) ==
    LET src == sd_root \o <<MEMORYCARDS>>
        dst == backup_dir \o <<BACKUPNAME>>
    IN  IF dry_run \/ Exists(f, dst) THEN Ok(f)
        ELSE IF ~IsDir(f, src) THEN Raise(f, "NotADirectoryError")
        ELSE Ok(Copytree(f, src, dst))

\* do_backup
DoBackup(f, sd_root, backup_dir, overwrite, dry_run) ==
    LET src == sd_root \o <<MEMORYCARDS>>
        dst == backup_dir \o <<BACKUPNAME>>
    IN  IF dry_run THEN Ok(f)
        ELSE LET f1 == IF Exists(f, dst) /\ overwrite THEN RemoveDst(f, dst) ELSE f
             IN  IF ~IsDir(f1, src) THEN Raise(f1, "NotADirectoryError")
                 ELSE IF Exists(f1, dst) THEN Raise(f1, "FileExistsError")
                 ELSE Ok(Copytree(f1, src, dst))

\* main, lines 266-269: create the backup directory, then back up
BackupStep(f, a) ==
    IF MkdirFails(f, a.backup_dir) THEN Raise(f, "FileExistsError")
    ELSE DoBackup(Mkdir(f, a.backup_dir), a.sd_root, a.backup_dir, a.force, a.dry_run)

----------------------------------------------------------------------------
(* Initial filesystems and command lines *)

GAFE0100 == <<"G","A","F","E","0","1","0","0">>
GAFQ0100 == <<"G","A","F","Q","0","1","0","0">>
GAFP0100 == <<"G","A","F","P","0","1","0","0">>
gafe0100 == <<"g","a","f","e","0","1","0","0">>
DL_GAFE_USA == <<"D","L","-","D","O","L","-","G","A","F","E","-","U","S","A">>
DL_GAFE_EUR == <<"D","L","-","D","O","L","-","G","A","F","E","-","E","U","R">>
DL_GAFE_US == <<"D","L","-","D","O","L","-","G","A","F","E","-","U","S">>

\* An entry of a MemoryCards directory: the directory `rel` (relative to
\* MemoryCards) and what it is: an empty directory, a directory holding its
\* -1.raw file, one holding a second file as well, one whose -1.raw is a
\* directory, or a regular file of that name.
EntryRaw(m, e) == m \o e.rel \o <<Name(e.rel) \o RAWSUFFIX>>

EntryFiles(m, e) ==
    CASE e.shape = "file" -> {m \o e.rel}
      [] e.shape = "raw" -> {EntryRaw(m, e)}
      [] e.shape = "rawother" -> {EntryRaw(m, e), m \o e.rel \o <<OTHERNAME>>}
      [] OTHER -> {}

EntryDirs(m, e) ==
    CASE e.shape = "file" -> Prefixes(Parent(m \o e.rel))
      [] e.shape = "rawdir" -> Prefixes(EntryRaw(m, e))
      [] OTHER -> Prefixes(m \o e.rel)

Tree(m, es) ==
    LET files == UNION {EntryFiles(m, e) : e \in es}
        dirs == Prefixes(m) \cup UNION {EntryDirs(m, e) : e \in es}
    IN  [q \in files \cup dirs |-> IF q \in files THEN FileNode(q) ELSE DirNode]

Compatible(es) ==
    \A a, b \in es :
        a # b => /\ a.rel # b.rel
                 /\ ~(a.shape = "file" /\ IsPrefix(a.rel, b.rel))

Choices(cands, max) ==
    {es \in SUBSET cands : Cardinality(es) <= max /\ Compatible(es)}

SrcCandidates ==
    {[rel |-> <<GAFE0100>>, shape |-> sh] :
        sh \in {"empty", "raw", "rawother", "rawdir"}}
    \cup {[rel |-> <<GAFQ0100>>, shape |-> "raw"],
          [rel |-> <<gafe0100>>, shape |-> "raw"],
          [rel |-> <<GAFP0100>>, shape |-> "file"],
          [rel |-> <<GCNAME>>, shape |-> "file"]}
    \cup {[rel |-> <<GCNAME, DL_GAFE_USA>>, shape |-> sh] :
            sh \in {"empty", "raw", "rawother"}}
    \cup {[rel |-> <<GCNAME, DL_GAFE_EUR>>, shape |-> "raw"],
          [rel |-> <<GCNAME, DL_GAFE_US>>, shape |-> "raw"]}

OutCandidates ==
    {[rel |-> <<GAFE0100>>, shape |-> sh] : sh \in {"raw", "rawdir", "file"}}
    \cup {[rel |-> <<GCNAME, DL_GAFE_USA>>, shape |-> sh] : sh \in {"empty", "raw"}}

\* {sd-root}: without MemoryCards, with MemoryCards a regular file, or with
\* a MemoryCards directory of at most MaxSrcEntries entries
SdTrees ==
    {Tree(SDROOT, {}), Tree(SDROOT, {[rel |-> <<MEMORYCARDS>>, shape |-> "file"]})}
    \cup {Tree(SDROOT \o <<MEMORYCARDS>>, es) : es \in Choices(SrcCandidates, MaxSrcEntries)}

\* a separate {output-sd-root}: missing, or with a MemoryCards directory
OutTrees ==
    {<<>>}
    \cup {Tree(OUTROOT \o <<MEMORYCARDS>>, es) : es \in Choices(OutCandidates, MaxOutEntries)}

\* the backup directory: missing, empty, or holding an earlier backup
BackupTrees ==
    {<<>>, Tree(BACKUPDIR, {}),
     Tree(BACKUPDIR, {[rel |-> <<BACKUPNAME, GAFE0100>>, shape |-> "raw"]})}

NoJson == [given |-> FALSE, letter_to_region3 |-> <<>>, region3_to_letter |-> <<>>]
OverrideJson ==
    [given |-> TRUE,
     letter_to_region3 |-> ("q" :> <<"a","s","i">>),
     region3_to_letter |-> (<<"a","s","i">> :> "q")]

Args ==
    [sd_root : {SDROOT},
     rename_to_gcmce : BOOLEAN,
     output_sd_root : {NoPath, SDROOT, OUTROOT},
     backup_dir : {NoPath, BACKUPDIR},
     region_map_json : {NoJson, OverrideJson},
     force : BOOLEAN,
     dry_run : BOOLEAN]

Init ==
    /\ args \in Args
    /\ \E sd \in SdTrees :
       \E out \in IF args.output_sd_root = OUTROOT THEN OutTrees ELSE {<<>>} :
       \E bk \in IF args.backup_dir = BACKUPDIR THEN BackupTrees ELSE {<<>>} :
            fs = sd @@ out @@ bk
    /\ fs0 = fs
    /\ pc = "main"
    /\ copy_mode = FALSE
    /\ l2r = <<>>
    /\ r2l = <<>>
    /\ plan = <<>>
    /\ i = 0
    /\ error = "none"
    /\ exit_code = <<>>

----------------------------------------------------------------------------
(* main *)

\* the process is still running
Running == exit_code = <<>>

\* return code, or an uncaught exception e (the interpreter then exits with
\* status 1); pc keeps the place where the run ended
Exit(code, e) ==
    /\ exit_code' = <<code>>
    /\ error' = e
    /\ UNCHANGED pc

\* main without the check for {sd-root}/MemoryCards
MainStart_WithoutCheck ==
    /\ Running
    /\ pc = "main"
    /\ copy_mode' = CopyMode(args)
    /\ pc' = "load_region_map"
    /\ UNCHANGED <<args, fs, fs0, l2r, r2l, plan, i, exit_code, error>>

\* lines 253-260: the source subtree must exist
MainStart ==
    /\ Running
    /\ pc = "main"
    /\ IF ~Exists(fs, args.sd_root \o <<MEMORYCARDS>>)
       THEN /\ Exit(1, "none")
            /\ UNCHANGED copy_mode
       ELSE /\ copy_mode' = CopyMode(args)
            /\ pc' = "load_region_map"
            /\ UNCHANGED <<exit_code, error>>
    /\ UNCHANGED <<args, fs, fs0, l2r, r2l, plan, i>>

\* lines 262-263
LoadRegionMap ==
    /\ Running
    /\ pc = "load_region_map"
    /\ l2r' = LoadL2R(args.region_map_json)
    /\ r2l' = LoadR2L(args.region_map_json)
    /\ pc' = "backup"
    /\ UNCHANGED <<args, fs, fs0, copy_mode, plan, i, error, exit_code>>

\* lines 265-269
Backup ==
    /\ Running
    /\ pc = "backup"
    /\ IF args.backup_dir = NoPath
       THEN /\ pc' = "plan"
            /\ UNCHANGED <<fs, error, exit_code>>
       ELSE LET r == BackupStep(fs, args)
            IN  /\ fs' = r.fs
                /\ IF r.error # "none"
                   THEN Exit(1, r.error)
                   ELSE /\ pc' = "plan"
                        /\ UNCHANGED <<error, exit_code>>
    /\ UNCHANGED <<args, fs0, copy_mode, l2r, r2l, plan, i>>

\* lines 271-283
BuildPlan ==
    /\ Running
    /\ pc = "plan"
    /\ LET src_root == IF args.rename_to_gcmce
                       THEN args.sd_root \o <<MEMORYCARDS>>
                       ELSE args.sd_root \o <<MEMORYCARDS, GCNAME>>
       IN  IF IterdirRaises(fs, src_root)
           THEN /\ Exit(1, "NotADirectoryError")
                /\ UNCHANGED <<plan, i>>
           ELSE \E results \in Orders(IF args.rename_to_gcmce
                                      THEN ScanMcgcp(fs, src_root)
                                      ELSE ScanGcmce(fs, src_root)) :
                    /\ plan' = IF args.rename_to_gcmce
                               THEN PlanMcgcpToGcmce(results, OutRoot(args), l2r, copy_mode)
                               ELSE PlanGcmceToMcgcp(results, OutRoot(args), r2l, copy_mode)
                    /\ IF plan' = <<>>
                       THEN /\ Exit(0, "none")
                            /\ UNCHANGED i
                       ELSE /\ pc' = "execute"
                            /\ i' = 1
                            /\ UNCHANGED <<error, exit_code>>
    /\ UNCHANGED <<args, fs, fs0, copy_mode, l2r, r2l>>

\* execute_plan: one plan item
ExecuteStep ==
    /\ Running
    /\ pc = "execute"
    /\ i <= Len(plan)
    /\ LET r == ExecuteItem(fs, plan[i], args.force, args.dry_run)
       IN  /\ fs' = r.fs
           /\ IF r.error # "none"
              THEN /\ Exit(1, r.error)
                   /\ UNCHANGED i
              ELSE /\ i' = i + 1
                   /\ UNCHANGED <<pc, error, exit_code>>
    /\ UNCHANGED <<args, fs0, copy_mode, l2r, r2l, plan>>

\* lines 286-287: execute_plan returned
MainReturn ==
    /\ Running
    /\ pc = "execute"
    /\ i > Len(plan)
    /\ Exit(0, "none")
    /\ UNCHANGED <<args, fs, fs0, copy_mode, l2r, r2l, plan, i>>

Next ==
    \/ MainStart
    \/ LoadRegionMap
    \/ Backup
    \/ BuildPlan
    \/ ExecuteStep
    \/ MainReturn

Spec == Init /\ [][Next]_vars

----------------------------------------------------------------------------
(* Properties *)

SrcMemoryCards == args.sd_root \o <<MEMORYCARDS>>

\* the node at path q is the same in f and g (present in both with the same
\* kind and content, or absent from both)
SameAt(f, g, q) == (q \in DOMAIN f <=> q \in DOMAIN g) /\ (q \in DOMAIN f => f[q] = g[q])

\* a plan item is being, or has been, attempted without --dry-run
Executing == pc = "execute" /\ ~args.dry_run

\* C1: a run with --dry-run never changes the filesystem, the backup
\* location included.
C1_DryRunChangesNothing == args.dry_run => fs = fs0

\* C2: without --dry-run and --force, a plan item whose destination file
\* exists fails with an error; the destination keeps its content and the
\* item's source file and directory stay in place (move and copy alike).
C2_CollisionFails ==
    [][(/\ Running /\ Executing /\ i <= Len(plan)
        /\ ~args.force
        /\ Exists(fs, plan[i].dst_file))
       => (/\ exit_code' = <<1>>
           /\ error' = "FileExistsError"
           /\ SameAt(fs', fs, plan[i].dst_file)
           /\ Exists(fs', plan[i].src_file)
           /\ SameAt(fs', fs, plan[i].src_file)
           /\ IsDir(fs', plan[i].src_dir)
           /\ Entries(fs', plan[i].src_dir) = Entries(fs, plan[i].src_dir))]_vars

C2_Witness ==
    /\ Executing /\ ~args.force
    /\ error = "FileExistsError"
    /\ plan[i].action = "move"
    /\ Exists(fs, plan[i].src_file)
    /\ Exists(fs, plan[i].dst_file)
    /\ fs[plan[i].dst_file] = fs0[plan[i].dst_file]

\* C3: unless --force is passed, no two plan items have the same destination
\* file.
C3_DistinctDestinations ==
    ~args.force =>
        \A a, b \in 1..Len(plan) : a # b => plan[a].dst_file # plan[b].dst_file

\* the source directories the planner is to take, and the destination file the
\* naming formula gives for one of them
C4_SourceDirs ==
    IF args.rename_to_gcmce
    THEN {d \in Entries(fs, SrcMemoryCards) :
            IsDir(fs, d) /\ MatchMcgcp(Name(d)) /\ Exists(fs, RawFile(d))}
    ELSE {d \in Entries(fs, SrcMemoryCards \o <<GCNAME>>) :
            IsDir(fs, d) /\ MatchGcmce(Name(d)) /\ Exists(fs, RawFile(d))}

C4_Destination(src_dir) ==
    LET out == IF args.output_sd_root = NoPath THEN args.sd_root ELSE args.output_sd_root
    IN  IF args.rename_to_gcmce
        THEN LET gameid == SubSeq(Name(src_dir), 1, 4)
                 R == IF gameid[4] \in DOMAIN l2r THEN l2r[gameid[4]] ELSE <<"O","T","H">>
                 dirname == <<"D","L","-","D","O","L","-">> \o gameid \o <<"-">> \o R
             IN  out \o <<MEMORYCARDS, GCNAME, dirname, dirname \o <<"-","1",".","r","a","w">> >>
        ELSE LET gameid == SubSeq(Name(src_dir), 8, 11)
                 dirname == gameid \o <<"0","1","0","0">>
             IN  out \o <<MEMORYCARDS, dirname, dirname \o <<"-","1",".","r","a","w">> >>

\* C4: the planner yields exactly one item per source directory that matches
\* the layout pattern and holds its -1.raw file, none for any other entry;
\* the destination follows the naming formula of the direction; planning
\* changes no file.
C4_PlanMatchesSources ==
    [][(Running /\ pc = "plan" /\ error' = "none")
       => (/\ fs' = fs
           /\ Len(plan') = Cardinality(C4_SourceDirs)
           /\ {plan'[k].src_dir : k \in 1..Len(plan')} = C4_SourceDirs
           /\ \A k \in 1..Len(plan') :
                /\ plan'[k].src_file = RawFile(plan'[k].src_dir)
                /\ plan'[k].dst_file = C4_Destination(plan'[k].src_dir)
                /\ plan'[k].dst_dir = Parent(plan'[k].dst_file))]_vars

\* the example of the specification: MemoryCards/GAFE0100/GAFE0100-1.raw
\* converts to MemoryCards/GC/DL-DOL-GAFE-USA/DL-DOL-GAFE-USA-1.raw, next to
\* an entry the planner skips
C4_Witness ==
    /\ pc = "execute"
    /\ args.rename_to_gcmce
    /\ Len(plan) = 1
    /\ plan[1].src_file = SDROOT \o <<MEMORYCARDS, GAFE0100, GAFE0100 \o RAWSUFFIX>>
    /\ plan[1].dst_file =
            SDROOT \o <<MEMORYCARDS, GCNAME, DL_GAFE_USA, DL_GAFE_USA \o RAWSUFFIX>>
    /\ Cardinality(Entries(fs0, SrcMemoryCards)) = 2

\* C5: with the default tables and no override, every letter whose
\* three-letter code is not OTH comes back from the round trip letter ->
\* code -> letter; the letters mapped to OTH are exactly X, Y and Z.
C5_RoundTrip ==
    (pc \notin {"main", "load_region_map"} /\ ~args.region_map_json.given)
    => /\ \A c \in DOMAIN l2r :
            l2r[c] # <<"O","T","H">> => l2r[c] \in DOMAIN r2l /\ r2l[l2r[c]] = c
       /\ {c \in DOMAIN l2r : l2r[c] = <<"O","T","H">>} = {"X", "Y", "Z"}
       /\ "E" \in DOMAIN l2r

C5_Witness ==
    /\ pc = "backup"
    /\ ~args.region_map_json.given
    /\ r2l[l2r["P"]] = "P"
    /\ r2l[l2r["Y"]] = "X"

C6_WitnessKept ==
    /\ Executing /\ ~copy_mode
    /\ \E k \in 1..Len(plan) :
        /\ k < i
        /\ ~Exists(fs, plan[k].src_file)
        /\ Entries(fs, plan[k].src_dir) = {plan[k].src_dir \o <<OTHERNAME>>}

\* C7: a run exits with code 1 and has changed nothing (no backup directory,
\* no backup, no plan item) if {sd-root}/MemoryCards is missing; a run that
\* ends without a raised error exits with code 0 otherwise, also when the
\* plan is empty, and then no plan item has been executed.
C7_ExitCodes ==
    ~Running =>
        /\ ~Exists(fs0, SrcMemoryCards)
            => exit_code = <<1>> /\ fs = fs0 /\ plan = <<>> /\ i = 0
        /\ (Exists(fs0, SrcMemoryCards) /\ error = "none") => exit_code = <<0>>
        /\ (Exists(fs0, SrcMemoryCards) /\ error = "none" /\ plan = <<>>)
            => /\ i = 0
               /\ \A q \in DOMAIN fs0 \cup DOMAIN fs :
                    (args.backup_dir = NoPath \/ ~IsPrefix(args.backup_dir, q))
                        => SameAt(fs, fs0, q)

C7_Witness ==
    /\ ~Running
    /\ ~Exists(fs0, SrcMemoryCards)
    /\ exit_code = <<1>>
    /\ args.backup_dir # NoPath
    /\ ~args.dry_run
    /\ ~Exists(fs, args.backup_dir)

C7_WitnessNothingToDo ==
    /\ ~Running
    /\ exit_code = <<0>>
    /\ plan = <<>>
    /\ Entries(fs0, SrcMemoryCards) # {}

\* the backup location, and the place of a source path in the backup
BackupRoot == args.backup_dir \o <<BACKUPNAME>>
BackupPath(q) == BackupRoot \o SubSeq(q, Len(SrcMemoryCards) + 1, Len(q))

C8_BackupGiven == args.backup_dir # NoPath /\ ~args.dry_run

\* C8: with --backup-dir and without --dry-run, the backup is complete before
\* any plan item is executed and holds the source tree as it was at the
\* start; if the backup fails, no plan item is executed and the source tree
\* is unchanged.
C8_BackupBeforeExecution ==
    C8_BackupGiven =>
        /\ (pc \in {"plan", "execute"})
            => /\ Subtree(fs, BackupRoot) = {BackupPath(q) : q \in Subtree(fs0, SrcMemoryCards)}
               /\ \A q \in Subtree(fs0, SrcMemoryCards) : fs[BackupPath(q)] = fs0[q]
        /\ (pc = "backup" /\ ~Running)
            => /\ error # "none"
               /\ plan = <<>> /\ i = 0
               /\ Subtree(fs, SrcMemoryCards) = Subtree(fs0, SrcMemoryCards)
               /\ \A q \in Subtree(fs0, SrcMemoryCards) : fs[q] = fs0[q]
        /\ (pc \in {"main", "load_region_map", "backup"}) => i = 0

\* the backup holds a save file that a later move has taken out of the
\* source tree
C8_Witness ==
    /\ C8_BackupGiven
    /\ pc = "execute" /\ i > 1
    /\ \E q \in Subtree(fs0, SrcMemoryCards) :
        /\ fs0[q].kind = "file"
        /\ ~Exists(fs, q)
        /\ fs[BackupPath(q)] = fs0[q]

C8_WitnessFailed ==
    /\ C8_BackupGiven
    /\ pc = "backup" /\ ~Running
    /\ error = "FileExistsError"
    /\ Entries(fs, SrcMemoryCards) # {}

\* the source and destination files of the plan items from k on are the same
\* in f and g
C9_Untouched(f, g, k) ==
    \A j \in k..Len(plan) :
        /\ SameAt(f, g, plan[j].src_file)
        /\ SameAt(f, g, plan[j].dst_file)

\* C9: plan items are applied in plan order and execution stops at the first
\* failing item k: the items before k are applied, item k and the items after
\* it have had no effect on their source and destination files, and nothing
\* is rolled back.
C9_StopAtFirstFailure ==
    [][(Running /\ Executing /\ i <= Len(plan))
       => \/ /\ i' = i + 1
             /\ Running'
             /\ fs'[plan[i].dst_file] = fs[plan[i].src_file]
             /\ plan[i].action = "move" => ~Exists(fs', plan[i].src_file)
          \/ /\ i' = i
             /\ ~Running'
             /\ error' # "none"
             /\ C9_Untouched(fs', fs, i)
             /\ \A j \in 1..i - 1 :
                    /\ SameAt(fs', fs, plan[j].src_file)
                    /\ SameAt(fs', fs, plan[j].dst_file)]_vars

====
